---- MODULE Spec2Model ----
(***************************************************************************)
(* A model of mod09ga_urls.py: the command-line program that queries the   *)
(* ECHO catalog for MOD09GA granules page by page, collects the .hdf links *)
(* and filters them by date.                                               *)
(*                                                                         *)
(* Representation of Python values:                                        *)
(*   str            a sequence of one-character strings                    *)
(*   None / a value <<>> / <<v>>            (None, Some)                    *)
(*   a call's outcome   <<"ok", v>> / <<"SomeError">>   (Ok, Raise)        *)
(*   datetime       <<year, month, day>> (the time of day is always 0)     *)
(***************************************************************************)
EXTENDS Integers, Sequences, FiniteSets, TLC

(***************************************************************************)
(* Module constants, lines 35-39, and the string literals of the code.     *)
(***************************************************************************)
ECHO_GRANULE_BASE_URL ==
  <<"h","t","t","p","s",":","/","/","a","p","i",".","e","c","h","o",".","n","a","s","a",".",
    "g","o","v","/","c","a","t","a","l","o","g","-","r","e","s","t","/","e","c","h","o","_",
    "c","a","t","a","l","o","g","/","g","r","a","n","u","l","e","s",".","j","s","o","n","?">>

PAGE_SIZE == 2000

QUERY_STRING ==
  <<"d","a","t","a","s","e","t","_","i","d","=","M","O","D","I","S","/","T","e","r","r","a",
    " ","S","u","r","f","a","c","e"," ","R","e","f","l","e","c","t","a","n","c","e"," ","D",
    "a","i","l","y"," ","L","2","G"," ","G","l","o","b","a","l"," ","1","k","m"," ","a","n",
    "d"," ","5","0","0","m"," ","S","I","N"," ","G","r","i","d"," ","V","0","0","5">>

ATT_VALUE_FMT ==
  <<"a","t","t","r","i","b","u","t","e","[","]","[","v","a","l","u","e","]","=">>

ATT_NAME_HORIZONTAL ==
  <<"a","t","t","r","i","b","u","t","e","[","]","[","n","a","m","e","]","=","H","O","R","I",
    "Z","O","N","T","A","L","T","I","L","E","N","U","M","B","E","R">>

ATT_NAME_VERTICAL ==
  <<"a","t","t","r","i","b","u","t","e","[","]","[","n","a","m","e","]","=","V","E","R","T",
    "I","C","A","L","T","I","L","E","N","U","M","B","E","R">>

ATT_TYPE ==
  <<"a","t","t","r","i","b","u","t","e","[","]","[","t","y","p","e","]","=","i","n","t">>

PAGE_SIZE_FMT ==
  <<"p","a","g","e","_","s","i","z","e","=">>

PAGE_NUM_FMT ==
  <<"p","a","g","e","_","n","u","m","=">>

VERSION_MARKER ==
  <<"/","M","O","D","0","9","G","A",".","0","0","5","/">>

PRODUCT_MARKER ==
  <<"/","M","O","D","0","9","G","A",".","A">>

HDF_SUFFIX ==
  <<".","h","d","f">>

UNABLE_FMT ==
  <<"U","n","a","b","l","e"," ","t","o"," ","f","e","t","c","h"," ">>

STATUS_FMT ==
  <<"\n"," ","R","e","t","u","r","n"," ","s","t","a","t","u","s"," ","c","o","d","e",":"," ">>

FALSE_STR ==
  <<"f","a","l","s","e">>

MISMATCH_FMT ==
  <<" ","d","o","e","s"," ","n","o","t"," ","m","a","t","c","h"," ","t","h","e"," ","h","#",
    "#","v","#","#"," ","t","i","l","e","I","D"," ","f","o","r","m","a","t">>

HTTP_OK == 200

(***************************************************************************)
(* Python values.                                                          *)
(***************************************************************************)
None == <<>>

Some(v) == <<v>>

Ok(v) == <<"ok", v>>

Raise(e) == <<e>>

IsOk(r) == Len(r) = 2

Val(r) == r[2]

(***************************************************************************)
(* str primitives: split, join, endswith, int(), "%s" % n.                 *)
(***************************************************************************)
DigitChars == <<"0", "1", "2", "3", "4", "5", "6", "7", "8", "9">>

IsDigit(c) == \E i \in 1..10 : DigitChars[i] = c

DigitVal(c) == (CHOOSE i \in 1..10 : DigitChars[i] = c) - 1

AllDigits(s) == \A i \in 1..Len(s) : IsDigit(s[i])

RECURSIVE DigitsValue(_)
DigitsValue(s) ==
  IF s = <<>> THEN 0
  ELSE 10 * DigitsValue(SubSeq(s, 1, Len(s) - 1)) + DigitVal(s[Len(s)])

MinOf(S) == CHOOSE j \in S : \A k \in S : j <= k

MatchesAt(s, sep, i) ==
  /\ i >= 1
  /\ i + Len(sep) - 1 <= Len(s)
  /\ SubSeq(s, i, i + Len(sep) - 1) = sep

\* str.find from position i (1-based); 0 when sep does not occur.
Find(s, sep, i) ==
  LET C == {j \in i..(Len(s) - Len(sep) + 1) : MatchesAt(s, sep, j)}
  IN  IF C = {} THEN 0 ELSE MinOf(C)

RECURSIVE SplitFrom(_, _, _)
SplitFrom(s, sep, i) ==
  LET j == Find(s, sep, i)
  IN  IF j = 0 THEN <<SubSeq(s, i, Len(s))>>
      ELSE <<SubSeq(s, i, j - 1)>> \o SplitFrom(s, sep, j + Len(sep))

\* s.split(sep), sep non-empty.
Split(s, sep) == SplitFrom(s, sep, 1)

RECURSIVE Join(_, _)
\* sep.join(parts)
Join(sep, parts) ==
  IF parts = <<>> THEN <<>>
  ELSE IF Len(parts) = 1 THEN parts[1]
  ELSE parts[1] \o sep \o Join(sep, Tail(parts))

EndsWith(s, suffix) ==
  /\ Len(suffix) <= Len(s)
  /\ SubSeq(s, Len(s) - Len(suffix) + 1, Len(s)) = suffix

\* the characters isspace() accepts: blank, tab, newline, vertical tab,
\* form feed, carriage return
Whitespace == {" ", "\t", "\n", "", "\f", "\r"}

RECURSIVE LStrip(_)
\* s without the whitespace it starts with
LStrip(s) == IF s # <<>> /\ Head(s) \in Whitespace THEN LStrip(Tail(s)) ELSE s

RECURSIVE RStrip(_)
\* s without the whitespace it ends with
RStrip(s) ==
  IF s # <<>> /\ s[Len(s)] \in Whitespace THEN RStrip(SubSeq(s, 1, Len(s) - 1)) ELSE s

\* s.strip()
Strip(s) == RStrip(LStrip(s))

\* int() of a string without whitespace around it: an optional sign,
\* whitespace again (Python 2 skips it after the sign), one or more digits
IntOfStripped(t) ==
  LET Number(negative, body) ==
        IF body = <<>> \/ ~AllDigits(body) THEN Raise("ValueError")
        ELSE IF negative THEN Ok(0 - DigitsValue(body))
        ELSE Ok(DigitsValue(body))
  IN  IF t # <<>> /\ Head(t) \in {"+", "-"}
      THEN Number(Head(t) = "-", LStrip(Tail(t)))
      ELSE Number(FALSE, t)

\* int(s): whitespace around, an optional sign, whitespace, one or more
\* digits; else ValueError.
PyInt(s) == IntOfStripped(Strip(s))

RECURSIVE Decimal(_)
\* '%s' % n for an int n >= 0
Decimal(n) ==
  IF n < 10 THEN <<DigitChars[n + 1]>>
  ELSE Decimal(n \div 10) \o <<DigitChars[(n % 10) + 1]>>

RECURSIVE ZeroPad(_, _)
ZeroPad(s, width) == IF Len(s) >= width THEN s ELSE ZeroPad(<<"0">> \o s, width)

(***************************************************************************)
(* datetime: strptime for the two formats the program uses, comparison,    *)
(* and strftime('%Y') / strftime('%j').                                    *)
(***************************************************************************)
IsLeap(y) == (y % 4 = 0 /\ y % 100 # 0) \/ y % 400 = 0

DaysInMonth(y, m) ==
  IF m = 2 THEN (IF IsLeap(y) THEN 29 ELSE 28)
  ELSE IF m \in {4, 6, 9, 11} THEN 30 ELSE 31

RECURSIVE DaysBefore(_, _)
DaysBefore(y, m) == IF m = 1 THEN 0 ELSE DaysBefore(y, m - 1) + DaysInMonth(y, m - 1)

DayOfYear(dt) == DaysBefore(dt[1], dt[2]) + dt[3]

\* DateLeq with < for <=
DateLess(a, b) ==
  \/ a[1] < b[1]
  \/ a[1] = b[1] /\ a[2] < b[2]
  \/ a[1] = b[1] /\ a[2] = b[2] /\ a[3] < b[3]

\* dt1 <= dt2 on datetimes
DateLeq(a, b) ==
  \/ a[1] < b[1]
  \/ a[1] = b[1] /\ a[2] < b[2]
  \/ a[1] = b[1] /\ a[2] = b[2] /\ a[3] <= b[3]

CharAt(s, i) == IF i >= 1 /\ i <= Len(s) THEN s[i] ELSE ""

\* The ways the directive %m, (1[0-2]|0[1-9]|[1-9]), matches at position i,
\* in the order the regular expression tries them: <<length, value>>.
MonthAlts(s, i) ==
  LET a == CharAt(s, i)
      b == CharAt(s, i + 1)
      two == \/ a = "1" /\ b \in {"0", "1", "2"}
             \/ a = "0" /\ IsDigit(b) /\ b # "0"
      one == IsDigit(a) /\ a # "0"
  IN  (IF two THEN << <<2, DigitsValue(<<a, b>>)>> >> ELSE <<>>)
      \o (IF one THEN << <<1, DigitVal(a)>> >> ELSE <<>>)

\* The ways the directive %d, (3[0-1]|[1-2]\d|0[1-9]|[1-9]| [1-9]), matches.
DayAlts(s, i) ==
  LET a == CharAt(s, i)
      b == CharAt(s, i + 1)
      two == \/ a = "3" /\ b \in {"0", "1"}
             \/ a \in {"1", "2"} /\ IsDigit(b)
             \/ a = "0" /\ IsDigit(b) /\ b # "0"
      one == IsDigit(a) /\ a # "0"
      blank == a = " " /\ IsDigit(b) /\ b # "0"
  IN  (IF two THEN << <<2, DigitsValue(<<a, b>>)>> >> ELSE <<>>)
      \o (IF one THEN << <<1, DigitVal(a)>> >> ELSE <<>>)
      \o (IF blank THEN << <<2, DigitVal(b)>> >> ELSE <<>>)

RECURSIVE Concat(_)
\* the concatenation of a sequence of sequences
Concat(ss) == IF ss = <<>> THEN <<>> ELSE Head(ss) \o Concat(Tail(ss))

\* <<month, day, end>> for each way %d matches at dpos
DayCandidates(month, dpos, dalts) ==
  [k \in 1..Len(dalts) |-> <<month, dalts[k][2], dpos + dalts[k][1]>>]

\* the matches of %m sep %d from mpos on, in the order the expression tries them
Candidates(s, sep, mpos, malts) ==
  Concat([k \in 1..Len(malts) |->
            IF MatchesAt(s, sep, mpos + malts[k][1])
            THEN DayCandidates(malts[k][2], mpos + malts[k][1] + Len(sep),
                               DayAlts(s, mpos + malts[k][1] + Len(sep)))
            ELSE <<>>])

\* datetime(y, m, d)
Datetime(y, m, d) ==
  IF y < 1 \/ d > DaysInMonth(y, m) THEN Raise("ValueError") ELSE Ok(<<y, m, d>>)

\* the first match must end where s ends
FirstMatch(s, cands) ==
  IF cands = <<>> THEN Raise("ValueError")
  ELSE IF cands[1][3] # Len(s) + 1 THEN Raise("ValueError")
  ELSE Datetime(DigitsValue(SubSeq(s, 1, 4)), cands[1][1], cands[1][2])

\* datetime.strptime(s, '%Y' + sep + '%m' + sep + '%d'): the first match of
\* the format's regular expression at the start of s must use all of s, and
\* the fields must name a day of the calendar.
Strptime(s, sep) ==
  IF Len(s) >= 4 /\ AllDigits(SubSeq(s, 1, 4)) /\ MatchesAt(s, sep, 5)
  THEN FirstMatch(s, Candidates(s, sep, 5 + Len(sep), MonthAlts(s, 5 + Len(sep))))
  ELSE Raise("ValueError")

\* dt.strftime(fmt) giving text: Python 2 refuses a year before 1900
Strftime(dt, text) == IF dt[1] < 1900 THEN Raise("ValueError") ELSE Ok(text)

\* dt.strftime('%Y')
StrftimeYear(dt) == Strftime(dt, ZeroPad(Decimal(dt[1]), 4))

\* dt.strftime('%j')
StrftimeDoy(dt) == Strftime(dt, ZeroPad(Decimal(DayOfYear(dt)), 3))

(***************************************************************************)
(* granule_date, lines 128-139.                                            *)
(***************************************************************************)
\* line 137 on the parts of url.split('/MOD09GA.005/'), then line 138
DateAfterMarker(after) ==
  IF Len(after) < 2 THEN Raise("IndexError")
  ELSE Strptime(Split(after[2], PRODUCT_MARKER)[1], <<".">>)

granule_date(url) == DateAfterMarker(Split(url, VERSION_MARKER))

(***************************************************************************)
(* date_range_filter, lines 70-100.  filter(f, urls) stops at the first    *)
(* link whose date cannot be read.                                         *)
(***************************************************************************)
\* the lambdas of lines 89, 93 and 98 on the date d of a link
WithinBounds(d, lo, hi) ==
  /\ (lo = None \/ DateLeq(lo[1], d))
  /\ (hi = None \/ DateLeq(d, hi[1]))

\* the links whose date cannot be read
Unreadable(urls) == {i \in 1..Len(urls) : ~IsOk(granule_date(urls[i]))}

\* filter(lambda url: ..., urls) once the bounds are datetimes
FilterByDate(urls, lo, hi) ==
  IF Unreadable(urls) # {} THEN granule_date(urls[MinOf(Unreadable(urls))])
  ELSE Ok(SelectSeq(urls, LAMBDA u : WithinBounds(Val(granule_date(u)), lo, hi)))

\* lines 96-98, e and s the outcomes of the two strptime calls
FilterBetween(urls, e, s) ==
  IF ~IsOk(e) THEN e
  ELSE IF ~IsOk(s) THEN s
  ELSE FilterByDate(urls, Some(Val(s)), Some(Val(e)))

\* lines 88-89
FilterUntil(urls, e) == IF ~IsOk(e) THEN e ELSE FilterByDate(urls, None, Some(Val(e)))

\* lines 92-93
FilterFrom(urls, s) == IF ~IsOk(s) THEN s ELSE FilterByDate(urls, Some(Val(s)), None)

date_range_filter(hdf_urls, start, end) ==
  IF start = None /\ end = None THEN Ok(hdf_urls)
  ELSE IF start = None THEN FilterUntil(hdf_urls, Strptime(end[1], <<>>))
  ELSE IF end = None THEN FilterFrom(hdf_urls, Strptime(start[1], <<>>))
  ELSE FilterBetween(hdf_urls, Strptime(end[1], <<>>), Strptime(start[1], <<>>))

(***************************************************************************)
(* give_url_dates, lines 188-196, and doy_and_year_filter, lines 198-205.  *)
(***************************************************************************)
\* line 196 on the outcomes of the two int(strftime) calls
UrlDateOf(url, year, doy) ==
  IF ~IsOk(year) THEN year
  ELSE IF ~IsOk(doy) THEN doy
  ELSE Ok(<<url, Val(year), Val(doy)>>)

\* int(text) on the outcome of strftime
IntOfText(text) == IF IsOk(text) THEN PyInt(Val(text)) ELSE text

\* lines 194-196 on the outcome dt of granule_date(url)
UrlDateItem(url, dt) ==
  IF ~IsOk(dt) THEN dt
  ELSE UrlDateOf(url, IntOfText(StrftimeYear(Val(dt))), IntOfText(StrftimeDoy(Val(dt))))

\* one item of the generator: <<url, year, doy>>
give_url_dates(url) == UrlDateItem(url, granule_date(url))

\* in_both_ranges with `or` between the two ranges
in_either_range(x, min_d, max_d, min_y, max_y) ==
  (min_y <= x[2] /\ x[2] <= max_y) \/ (min_d <= x[3] /\ x[3] <= max_d)

\* line 203: the condition of the list comprehension on the item x
in_both_ranges(x, min_d, max_d, min_y, max_y) ==
  (min_y <= x[2] /\ x[2] <= max_y) /\ (min_d <= x[3] /\ x[3] <= max_d)

\* the links on which the generator raises
NoDate(urls) == {i \in 1..Len(urls) : ~IsOk(give_url_dates(urls[i]))}

\* The list comprehension stops at the first link whose date cannot be read.
doy_and_year_filter(hdf_urls, min_max_doys, min_max_years) ==
  LET min_d == min_max_doys[1]
      max_d == min_max_doys[2]
      min_y == min_max_years[1]
      max_y == min_max_years[2]
  IN  IF NoDate(hdf_urls) # {} THEN give_url_dates(hdf_urls[MinOf(NoDate(hdf_urls))])
      ELSE Ok(SelectSeq(hdf_urls,
                LAMBDA u : in_both_ranges(Val(give_url_dates(u)), min_d, max_d, min_y, max_y)))

(***************************************************************************)
(* check_range_args, lines 172-177: the truth value of                     *)
(* args.year_range and args.doy_range (None and '' are false).             *)
(***************************************************************************)
Truthy(opt) == opt # None /\ opt[1] # <<>>

\* check_range_args with `or` for `and`
check_range_args_either(years, doys) == Truthy(years) \/ Truthy(doys)

check_range_args(years, doys) == Truthy(years) /\ Truthy(doys)

(***************************************************************************)
(* parse_hyphened_range, lines 179-186.  The tuple assignment raises       *)
(* ValueError unless split gives exactly two parts; the handler then takes *)
(* the first part for both ends.                                           *)
(***************************************************************************)
\* line 186: (int(start), int(end)), a and b the outcomes of the two int calls
IntPair(a, b) ==
  IF ~IsOk(a) THEN a
  ELSE IF ~IsOk(b) THEN b
  ELSE Ok(<<Val(a), Val(b)>>)

\* lines 181-186 on the parts of hyphened_range.split('-')
RangeOfParts(parts) ==
  IF Len(parts) = 2 THEN IntPair(PyInt(parts[1]), PyInt(parts[2]))
  ELSE IntPair(PyInt(parts[1]), PyInt(parts[1]))

parse_hyphened_range(hyphened_range) == RangeOfParts(Split(hyphened_range, <<"-">>))

(***************************************************************************)
(* set_horizontal_tile, set_vertical_tile, lines 155-169, and              *)
(* build_query_string, lines 62-68.                                        *)
(***************************************************************************)
set_horizontal_tile(query, value) ==
  LET att_value == ATT_VALUE_FMT \o value
      att_name == ATT_NAME_HORIZONTAL
      att_type == ATT_TYPE
  IN  Join(<<"&">>, <<query, att_name, att_type, att_value>>)

set_vertical_tile(query, value) ==
  LET att_value == ATT_VALUE_FMT \o value
      att_name == ATT_NAME_VERTICAL
      att_type == ATT_TYPE
  IN  Join(<<"&">>, <<query, att_name, att_type, att_value>>)

\* QueryOfTiles setting the vertical tile first
QueryOfTiles_vertical_first(query, byV, byH) ==
  IF Len(byV) < 2 \/ Len(byH) < 2 THEN Raise("IndexError")
  ELSE Ok(set_horizontal_tile(set_vertical_tile(query, byV[2]), Split(byH[2], <<"v">>)[1]))

\* lines 64-67 on byV = tile_id.split('v') and byH = tile_id.split('h')
QueryOfTiles(query, byV, byH) ==
  IF Len(byV) < 2 \/ Len(byH) < 2 THEN Raise("IndexError")
  ELSE Ok(set_vertical_tile(set_horizontal_tile(query, Split(byH[2], <<"v">>)[1]), byV[2]))

build_query_string(tile_id, query) ==
  QueryOfTiles(query, Split(tile_id, <<"v">>), Split(tile_id, <<"h">>))

(***************************************************************************)
(* TILE_PATTERN.match(tile), lines 212-213: re.match anchors the pattern   *)
(* h\d{2}v\d{2} at the start of the string only.                           *)
(***************************************************************************)
TILE_PATTERN_match(tile) ==
  /\ Len(tile) >= 6
  /\ tile[1] = "h"
  /\ IsDigit(tile[2])
  /\ IsDigit(tile[3])
  /\ tile[4] = "v"
  /\ IsDigit(tile[5])
  /\ IsDigit(tile[6])

(***************************************************************************)
(* parse_hdf_paths, lines 141-153.  A response body is a sequence of       *)
(* entries, an entry the sequence of the hrefs of its links.               *)
(***************************************************************************)
RECURSIVE LinksOf(_)
LinksOf(links) ==
  IF links = <<>> THEN <<>>
  ELSE (IF EndsWith(Head(links), HDF_SUFFIX) THEN <<Head(links)>> ELSE <<>>)
       \o LinksOf(Tail(links))

RECURSIVE parse_hdf_paths(_)
parse_hdf_paths(entries) ==
  IF entries = <<>> THEN <<>>
  ELSE LinksOf(Head(entries)) \o parse_hdf_paths(Tail(entries))

(***************************************************************************)
(* paged_url, lines 109-112, and the two assignments of one turn of the    *)
(* loop of generate_all_download_urls, lines 114-124.  A response is       *)
(* [status_code, headers, json]: headers is the value of the header        *)
(* 'echo-cursor-at-end' (None when the response does not carry it), json   *)
(* the entries of the feed.  page_count = False is the integer 0.          *)
(***************************************************************************)
paged_url(base, page_size, page_count) ==
  LET page_param == PAGE_SIZE_FMT \o Decimal(page_size)
      page_num_param == PAGE_NUM_FMT \o Decimal(page_count)
  IN  Join(<<"&">>, <<base, page_param, page_num_param>>)

\* accumulate with the links of the page that ends the results left out
accumulate_not_last_page(urls, request) ==
  IF request.status_code # HTTP_OK THEN urls
  ELSE IF request.headers # None /\ request.headers[1] # FALSE_STR THEN urls
  ELSE urls \o parse_hdf_paths(request.json)

\* lines 117-119: all_urls after the turn
accumulate(urls, request) ==
  IF request.status_code # HTTP_OK THEN urls
  ELSE urls \o parse_hdf_paths(request.json)

\* next_page_count ending the loop on 'true' only
next_page_count_until_true(request, page_count) ==
  IF request.status_code # HTTP_OK THEN page_count + 1
  ELSE IF request.headers[1] = <<"t", "r", "u", "e">> THEN 0
  ELSE page_count + 1

\* next_page_count asking for a failed page again
next_page_count_retry(request, page_count) ==
  IF request.status_code # HTTP_OK THEN page_count
  ELSE IF request.headers[1] = FALSE_STR THEN page_count + 1
  ELSE 0

\* lines 114-124: page_count after the turn (the header is present)
next_page_count(request, page_count) ==
  IF request.status_code # HTTP_OK THEN page_count + 1
  ELSE IF request.headers[1] = FALSE_STR THEN page_count + 1
  ELSE 0

\* line 121: request.headers['echo-cursor-at-end'] raises KeyError
header_missing(request) == request.status_code = HTTP_OK /\ request.headers = None

\* line 115: the line printed for a failed page
unable_message(purl, request) ==
  UNABLE_FMT \o purl \o STATUS_FMT \o Decimal(request.status_code)

(***************************************************************************)
(* Bounds of the model and the inputs drawn in the initial states.         *)
(***************************************************************************)
MaxPages == 4

MaxTileLen == 7

MaxUrls == 3

MaxRangeLen == 5

TRUE_STR ==
  <<"t","r","u","e">>

OTHER_STR ==
  <<"T","r","u","e">>

FetchUrl ==
  <<"h","t","t","p",":","/","/","e","c","h","o","/","g","r","a","n","u","l","e","s",".","j",
    "s","o","n","?","d","a","t","a","s","e","t","_","i","d","=","M","O","D","0","9","G","A">>

UrlHead ==
  <<"h","t","t","p",":","/","/","e","4","f","t","l","0","1",".","c","r",".","u","s","g","s",
    ".","g","o","v","/","M","O","L","T">>

UrlTail ==
  <<".","h","1","0","v","0","3",".","0","0","5",".","h","d","f">>

XmlSuffix ==
  <<".","x","m","l">>

G20130101 ==
  <<"2","0","1","3",".","0","1",".","0","1">>

G20130615 ==
  <<"2","0","1","3",".","0","6",".","1","5">>

G20131231 ==
  <<"2","0","1","3",".","1","2",".","3","1">>

G20120409 ==
  <<"2","0","1","2",".","0","4",".","0","9">>

G20130219 ==
  <<"2","0","1","3",".","0","2",".","1","9">>

G20130719 ==
  <<"2","0","1","3",".","0","7",".","1","9">>

G18991231 ==
  <<"1","8","9","9",".","1","2",".","3","1">>

J2013001 ==
  <<"2","0","1","3","0","0","1">>

J2013166 ==
  <<"2","0","1","3","1","6","6">>

J2013365 ==
  <<"2","0","1","3","3","6","5">>

J2012100 ==
  <<"2","0","1","2","1","0","0">>

J2013050 ==
  <<"2","0","1","3","0","5","0">>

J2013200 ==
  <<"2","0","1","3","2","0","0">>

J1899365 ==
  <<"1","8","9","9","3","6","5">>

D20130101 ==
  <<"2","0","1","3","0","1","0","1">>

D20130615 ==
  <<"2","0","1","3","0","6","1","5">>

D20131231 ==
  <<"2","0","1","3","1","2","3","1">>

D20131301 ==
  <<"2","0","1","3","1","3","0","1">>

Y2013 ==
  <<"2","0","1","3">>

Y2012_2013 ==
  <<"2","0","1","2","-","2","0","1","3">>

Doy50_150 ==
  <<"5","0","-","1","5","0">>

DoySigned50_150 ==
  <<"+"," ","5","0","-","1","5","0">>

Doy1_2_3 ==
  <<"1","-","2","-","3">>

Doy5x ==
  <<"5","x">>

TileH11V03 ==
  <<"h","1","1","v","0","3">>

TileH1V3 ==
  <<"h","1","v","3">>

ShortQuery ==
  <<"q","=","1","&","r","=","2">>

\* A link as the catalog writes it (the comment of lines 135-136).
GranuleUrl(date, julian) ==
  UrlHead \o VERSION_MARKER \o date \o PRODUCT_MARKER \o julian \o UrlTail

UrlJan01 == GranuleUrl(G20130101, J2013001)

UrlJun15 == GranuleUrl(G20130615, J2013166)

UrlDec31 == GranuleUrl(G20131231, J2013365)

Url2012Doy100 == GranuleUrl(G20120409, J2012100)

Url2013Doy050 == GranuleUrl(G20130219, J2013050)

Url2013Doy200 == GranuleUrl(G20130719, J2013200)

\* a link dated before the years strftime accepts
Url1899Doy365 == GranuleUrl(G18991231, J1899365)

XmlJan01 == UrlJan01 \o XmlSuffix

SeqsUpTo(S, n) == UNION {[1..k -> S] : k \in 0..n}

\* Response bodies: no entry; one entry with links of both kinds; several
\* entries, one without links; one entry without any .hdf link.
Bodies ==
  { <<>>,
    << <<UrlJan01, XmlJan01, UrlJun15>> >>,
    << <<UrlDec31>>, <<>>, <<XmlJan01, UrlJan01>> >>,
    << <<XmlJan01>> >> }

FetchResponses ==
  {[status_code |-> HTTP_OK, headers |-> h, json |-> b] :
      h \in {None, Some(TRUE_STR), Some(FALSE_STR), Some(OTHER_STR)}, b \in Bodies}
  \cup {[status_code |-> 500, headers |-> Some(TRUE_STR), json |-> << <<UrlJun15>> >>],
        [status_code |-> 404, headers |-> None, json |-> <<>>]}

MainResponses ==
  {[status_code |-> HTTP_OK, headers |-> Some(FALSE_STR),
    json |-> << <<Url2012Doy100, XmlJan01, Url2013Doy050>> >>],
   [status_code |-> HTTP_OK, headers |-> Some(TRUE_STR),
    json |-> << <<UrlJan01>>, <<Url2013Doy200>> >>],
   [status_code |-> HTTP_OK, headers |-> Some(TRUE_STR),
    json |-> << <<Url1899Doy365>> >>],
   [status_code |-> HTTP_OK, headers |-> None, json |-> <<>>],
   [status_code |-> 500, headers |-> None, json |-> <<>>]}

TileAlphabet == {"h", "v", "1"}

Tiles == SeqsUpTo(TileAlphabet, MaxTileLen)

RangeAlphabet == {"1", "2", "3", "-", "x", "+", " ", "\t"}

RangeStrings == SeqsUpTo(RangeAlphabet, MaxRangeLen)

UrlPool == {UrlJan01, UrlJun15, UrlDec31, Url2012Doy100}

DoyPool == {Url2012Doy100, Url2013Doy050, Url2013Doy200, Url1899Doy365}

(***************************************************************************)
(* The state: ARGS (line 210), the position in the program, the locals of  *)
(* generate_all_download_urls, the traffic with the catalog, what the      *)
(* process printed and how it ended, and the argument and result of a      *)
(* function called on its own.                                             *)
(***************************************************************************)
VARIABLES tile, start_date, end_date, year_range, doy_range, pc, url, page_count,
          all_urls, network, responses, hdf_urls, applied, stdout, exit_status,
          arg, ret

ARGS == <<tile, start_date, end_date, year_range, doy_range>>

vars == <<tile, start_date, end_date, year_range, doy_range, pc, url, page_count,
          all_urls, network, responses, hdf_urls, applied, stdout, exit_status,
          arg, ret>>

\* Nothing fetched, printed or computed yet.
Fresh ==
  /\ page_count = 1
  /\ all_urls = <<>>
  /\ network = <<>>
  /\ responses = <<>>
  /\ hdf_urls = <<>>
  /\ applied = <<>>
  /\ stdout = <<>>
  /\ exit_status = None
  /\ ret = <<>>

NoArgs ==
  /\ tile = TileH11V03
  /\ start_date = None
  /\ end_date = None
  /\ year_range = None
  /\ doy_range = None

(***************************************************************************)
(* One turn of the while loop of generate_all_download_urls, lines         *)
(* 110-124, against a catalog that answers with any response of R.         *)
(***************************************************************************)
FetchPage(R) ==
  /\ pc = "loop"
  /\ page_count # 0
  /\ page_count <= MaxPages
  /\ \E request \in R :
       LET purl == paged_url(url, PAGE_SIZE, page_count)
       IN  /\ network' = Append(network, purl)
           /\ responses' = Append(responses, request)
           /\ all_urls' = accumulate(all_urls, request)
           /\ stdout' = IF request.status_code # HTTP_OK
                        THEN Append(stdout, unable_message(purl, request))
                        ELSE stdout
           /\ IF header_missing(request)
              THEN pc' = "raised" /\ page_count' = page_count
              ELSE /\ page_count' = next_page_count(request, page_count)
                   /\ pc' = IF page_count' # 0 THEN "loop" ELSE "returned"
  /\ UNCHANGED <<ARGS, url, hdf_urls, applied, exit_status, arg, ret>>

(***************************************************************************)
(* __main__, lines 208-229.                                                *)
(***************************************************************************)
\* lines 210-219: the tile is matched; the query is built or the run ends.
Validate ==
  /\ pc = "start"
  /\ IF TILE_PATTERN_match(tile)
     THEN LET QUERY_PARAMS == build_query_string(tile, QUERY_STRING)
          IN  IF IsOk(QUERY_PARAMS)
              THEN /\ url' = ECHO_GRANULE_BASE_URL \o Val(QUERY_PARAMS)
                   /\ pc' = "loop"
                   /\ UNCHANGED <<stdout, exit_status>>
              ELSE /\ pc' = "exited"
                   /\ exit_status' = Some(1)
                   /\ UNCHANGED <<url, stdout>>
     ELSE /\ stdout' = Append(stdout, tile \o MISMATCH_FMT)
          /\ exit_status' = Some(0)
          /\ pc' = "exited"
          /\ url' = url
  /\ UNCHANGED <<ARGS, page_count, all_urls, network, responses, hdf_urls, applied,
                 arg, ret>>

\* The KeyError of line 121 is caught nowhere: traceback, exit status 1.
Uncaught ==
  /\ pc = "raised"
  /\ pc' = "exited"
  /\ exit_status' = Some(1)
  /\ UNCHANGED <<ARGS, url, page_count, all_urls, network, responses, hdf_urls,
                 applied, stdout, arg, ret>>

\* lines 222-223: parse_hyphened_range(ARGS.doy_range); None has no split
parse_range_arg(opt) ==
  IF opt = None THEN Raise("AttributeError") ELSE parse_hyphened_range(opt[1])

\* lines 222-224: the year+DOY filter on the parsed ranges; <<applied, outcome>>
filter_by_ranges(hdfs, doy_range_, year_range_) ==
  IF ~IsOk(doy_range_) THEN <<<<>>, doy_range_>>
  ELSE IF ~IsOk(year_range_) THEN <<<<>>, year_range_>>
  ELSE <<<<"doy_and_year_filter">>,
         doy_and_year_filter(hdfs, Val(doy_range_), Val(year_range_))>>

\* lines 221-226: the filter chosen; <<applied, outcome>>
run_filter(hdfs, start, end, years, doys) ==
  IF check_range_args(years, doys)
  THEN filter_by_ranges(hdfs, parse_range_arg(doys), parse_range_arg(years))
  ELSE <<<<"date_range_filter">>, date_range_filter(hdfs, start, end)>>

\* lines 216 and 221-229: the links fetched are filtered and printed.
FilterAndPrint ==
  /\ pc = "returned"
  /\ \E out \in {run_filter(all_urls, start_date, end_date, year_range, doy_range)} :
         /\ applied' = applied \o out[1]
         /\ IF IsOk(out[2])
            THEN /\ hdf_urls' = Val(out[2])
                 /\ stdout' = stdout \o Val(out[2])
                 /\ exit_status' = Some(0)
            ELSE /\ exit_status' = Some(1)
                 /\ UNCHANGED <<hdf_urls, stdout>>
  /\ pc' = "exited"
  /\ UNCHANGED <<ARGS, url, page_count, all_urls, network, responses, arg, ret>>

(***************************************************************************)
(* The functions called on their own: arg holds the arguments.             *)
(***************************************************************************)
Call(result) ==
  /\ pc = "call"
  /\ ret' = result
  /\ pc' = "done"
  /\ UNCHANGED <<ARGS, url, page_count, all_urls, network, responses, hdf_urls,
                 applied, stdout, exit_status, arg>>

CallDateRangeFilter == Call(date_range_filter(arg[1], arg[2], arg[3]))

CallDoyAndYearFilter == Call(doy_and_year_filter(arg[1], arg[2], arg[3]))

CallParseHyphenedRange == Call(parse_hyphened_range(arg[1]))

CallBuildQueryString == Call(build_query_string(arg[1], arg[2]))

(***************************************************************************)
(* Specifications.                                                         *)
(***************************************************************************)
\* generate_all_download_urls(FetchUrl) against any catalog.
InitFetch ==
  /\ NoArgs
  /\ Fresh
  /\ pc = "loop"
  /\ url = FetchUrl
  /\ arg = <<>>

NextFetch == FetchPage(FetchResponses)

SpecFetch == InitFetch /\ [][NextFetch]_vars

\* The program run on any tile argument, no option given.
NextMain ==
  \/ Validate
  \/ FetchPage(MainResponses)
  \/ Uncaught
  \/ FilterAndPrint

InitTile ==
  /\ tile \in Tiles
  /\ start_date = None
  /\ end_date = None
  /\ year_range = None
  /\ doy_range = None
  /\ Fresh
  /\ pc = "start"
  /\ url = <<>>
  /\ arg = <<>>

SpecTile == InitTile /\ [][NextMain]_vars

\* The program run with any combination of the options.
InitArgs ==
  /\ tile \in {TileH11V03, TileH1V3}
  /\ start_date \in {None, Some(D20130101), Some(Y2013)}
  /\ end_date \in {None, Some(D20130615)}
  /\ year_range \in {None, Some(<<>>), Some(Y2013), Some(Y2012_2013)}
  /\ doy_range \in {None, Some(<<>>), Some(Doy50_150), Some(DoySigned50_150),
                    Some(Doy1_2_3), Some(Doy5x)}
  /\ Fresh
  /\ pc = "start"
  /\ url = <<>>
  /\ arg = <<>>

SpecArgs == InitArgs /\ [][NextMain]_vars

\* date_range_filter on any list of links and any bounds.
DateBounds == {None, Some(D20130101), Some(D20130615), Some(D20131231), Some(D20131301)}

InitDateRange ==
  /\ NoArgs
  /\ Fresh
  /\ pc = "call"
  /\ url = <<>>
  /\ arg \in SeqsUpTo(UrlPool, MaxUrls) \X DateBounds \X DateBounds

SpecDateRange == InitDateRange /\ [][CallDateRangeFilter]_vars

\* doy_and_year_filter on any list of links and any ranges.
DoyValues == {50, 100, 150, 200}

YearValues == {2012, 2013}

InitDoy ==
  /\ NoArgs
  /\ Fresh
  /\ pc = "call"
  /\ url = <<>>
  /\ arg \in SeqsUpTo(DoyPool, MaxUrls) \X (DoyValues \X DoyValues) \X (YearValues \X YearValues)

SpecDoy == InitDoy /\ [][CallDoyAndYearFilter]_vars

\* parse_hyphened_range on any string.
InitRange ==
  /\ NoArgs
  /\ Fresh
  /\ pc = "call"
  /\ url = <<>>
  /\ arg \in {<<s>> : s \in RangeStrings}

SpecRange == InitRange /\ [][CallParseHyphenedRange]_vars

\* build_query_string on any tile and base query.
TileDigits == {"0", "1", "3"}

DigitTiles ==
  {<<"h", a, b, "v", c, d>> : a \in TileDigits, b \in TileDigits,
                               c \in TileDigits, d \in TileDigits}

InitQuery ==
  /\ NoArgs
  /\ Fresh
  /\ pc = "call"
  /\ url = <<>>
  /\ arg \in (Tiles \cup DigitTiles) \X {QUERY_STRING, ShortQuery}

SpecQuery == InitQuery /\ [][CallBuildQueryString]_vars

(***************************************************************************)
(* Properties of generate_all_download_urls, under SpecFetch.              *)
(***************************************************************************)
LastResponse == responses[Len(responses)]

Succeeded(r) == r.status_code = 200

HdfHrefs(r) == SelectSeq(Concat(r.json), LAMBDA h : EndsWith(h, HDF_SUFFIX))

RECURSIVE PagesLinks(_)
\* the .hdf links of the successful pages of rs, page after page
PagesLinks(rs) ==
  IF rs = <<>> THEN <<>>
  ELSE PagesLinks(SubSeq(rs, 1, Len(rs) - 1))
       \o (IF Succeeded(rs[Len(rs)]) THEN HdfHrefs(rs[Len(rs)]) ELSE <<>>)

\* C1: when generate_all_download_urls returns, its result is exactly the
\* links of every page fetched, in page order and, within a page, in the
\* order of the response, the last page's links included; nothing is
\* duplicated, reordered or omitted.
C1_AllLinksInOrder == pc = "returned" => all_urls = PagesLinks(responses)

\* Three pages of links, then a fourth with links and the end flag 'true'.
C1_Witness ==
  /\ pc = "returned"
  /\ Len(responses) = 4
  /\ \A i \in 1..4 : Succeeded(responses[i]) /\ HdfHrefs(responses[i]) # <<>>
  /\ responses[1].json # responses[4].json
  /\ responses[4].headers = Some(TRUE_STR)
  /\ all_urls = HdfHrefs(responses[1]) \o HdfHrefs(responses[2])
                  \o HdfHrefs(responses[3]) \o HdfHrefs(responses[4])

ExplicitEnd(r) == Succeeded(r) /\ r.headers = Some(TRUE_STR)

\* C2 as stated: the loop goes on unless a successful response says
\* explicitly ('true') that the cursor is at the end; in particular it goes
\* on, and never returns or fails, when the indicator is anything else or
\* is not there.
C2_EndsOnlyOnExplicitEnd ==
  responses # <<>> /\ ~ExplicitEnd(LastResponse) => pc = "loop"

SaysMore(r) == Succeeded(r) /\ r.headers # None /\ r.headers[1] = FALSE_STR

\* C2 amended: the loop goes on, with the next page number, exactly after
\* a failed page or a successful page whose indicator is 'false'; it returns
\* after a successful page whose indicator has any other value, and raises
\* KeyError after a successful page without the indicator.
C2_EndsUnlessFalse ==
  responses # <<>> =>
    /\ (pc = "loop") = (~Succeeded(LastResponse) \/ SaysMore(LastResponse))
    /\ (pc = "raised") = (Succeeded(LastResponse) /\ LastResponse.headers = None)
    /\ (pc = "returned") = (/\ Succeeded(LastResponse)
                            /\ LastResponse.headers # None
                            /\ ~SaysMore(LastResponse))
    /\ (pc = "loop" => page_count = Len(responses) + 1)

\* A run that returned on an indicator that is neither 'true' nor 'false',
\* after a failed page and a page that said 'false'.
C2_Witness ==
  /\ pc = "returned"
  /\ Len(responses) = 3
  /\ ~Succeeded(responses[1])
  /\ SaysMore(responses[2])
  /\ LastResponse.headers = Some(OTHER_STR)

ExpectedRequest(i) ==
  url \o <<"&">> \o PAGE_SIZE_FMT \o <<"2", "0", "0", "0">>
      \o <<"&">> \o PAGE_NUM_FMT \o <<DigitChars[i + 1]>>

\* C3: a failed page neither aborts the run nor is requested again: the
\* page counter grows by one, the links collected stay as they are and the
\* loop goes on; the i-th request of a run is the request for page i.
C3_FailedPageSkipped ==
  /\ [](\A i \in 1..Len(network) : network[i] = ExpectedRequest(i))
  /\ [][(responses' # responses /\ ~Succeeded(responses'[Len(responses')]))
          => /\ page_count' = page_count + 1
             /\ all_urls' = all_urls
             /\ pc' = "loop"
             /\ Len(network') = Len(network) + 1]_vars

\* A failed page after which links were still fetched.
C3_Witness ==
  /\ Len(responses) = 3
  /\ HdfHrefs(responses[1]) # <<>> /\ Succeeded(responses[1])
  /\ ~Succeeded(responses[2])
  /\ Succeeded(responses[3]) /\ HdfHrefs(responses[3]) # <<>>
  /\ all_urls = HdfHrefs(responses[1]) \o HdfHrefs(responses[3])
  /\ Len(network) = 3

(***************************************************************************)
(* Properties of the program, under SpecTile and SpecArgs.                 *)
(***************************************************************************)
\* exactly 'h', two digits, 'v', two digits
ExactTile(t) ==
  /\ Len(t) = 6
  /\ t[1] = "h"
  /\ t[4] = "v"
  /\ \A i \in {2, 3, 5, 6} : t[i] \in {"0", "1", "2", "3", "4", "5", "6", "7", "8", "9"}

\* C4: for a tile identifier that is not exactly h##v## (also one that
\* only starts like it) no request is ever sent to the catalog.
C4_NoRequestForMalformedTile == ~ExactTile(tile) => network = <<>>

\* C5: a run whose tile does not match the pattern prints the error
\* message and ends with a non-zero exit status.
C5_MismatchExitsNonZero ==
  pc = "exited" /\ ~TILE_PATTERN_match(tile)
    => /\ stdout = <<tile \o MISMATCH_FMT>>
       /\ exit_status # None
       /\ exit_status # Some(0)

Supplied(opt) == Len(opt) = 1 /\ Len(opt[1]) > 0

BothRanges == Supplied(year_range) /\ Supplied(doy_range)

FetchReturned == page_count = 0

\* C8: at most one filter is applied in a run, and it is the year+DOY
\* filter exactly when both -y and -d are supplied (non-empty): then the
\* output does not depend on -s/-e; in every other case the date-range
\* filter is applied to the links fetched, and without -s and -e the output
\* is the links fetched.
C8_OneStrategy ==
  /\ Len(applied) <= 1
  /\ applied = <<"doy_and_year_filter">> => BothRanges
  /\ applied = <<"date_range_filter">> => ~BothRanges
  /\ pc = "exited" /\ FetchReturned /\ ~BothRanges => applied = <<"date_range_filter">>
  /\ pc = "exited" /\ FetchReturned /\ BothRanges /\ exit_status = Some(0)
       => /\ applied = <<"doy_and_year_filter">>
          /\ Ok(hdf_urls) = doy_and_year_filter(all_urls,
                              Val(parse_hyphened_range(doy_range[1])),
                              Val(parse_hyphened_range(year_range[1])))
  /\ pc = "exited" /\ FetchReturned /\ BothRanges
       /\ IsOk(parse_hyphened_range(doy_range[1]))
       /\ IsOk(parse_hyphened_range(year_range[1]))
       => applied = <<"doy_and_year_filter">>
  /\ pc = "exited" /\ FetchReturned /\ ~BothRanges /\ exit_status = Some(0)
       => /\ Ok(hdf_urls) = date_range_filter(all_urls, start_date, end_date)
          /\ (start_date = None /\ end_date = None => hdf_urls = all_urls)

\* Both ranges and both dates given: the year+DOY filter alone decided the
\* output, which a start date that is no date did not prevent.
C8_Witness ==
  /\ pc = "exited"
  /\ exit_status = Some(0)
  /\ applied = <<"doy_and_year_filter">>
  /\ start_date = Some(Y2013)
  /\ end_date # None
  /\ hdf_urls = <<Url2013Doy050>>
  /\ Len(all_urls) > 2

(***************************************************************************)
(* Properties of the filters, under SpecDateRange and SpecDoy.             *)
(***************************************************************************)
\* the day of each link of the pools, as YYYYMMDD, its year and day of year
DayNumber(u) ==
  CASE u = UrlJan01 -> 20130101
    [] u = UrlJun15 -> 20130615
    [] u = UrlDec31 -> 20131231
    [] u = Url2012Doy100 -> 20120409
    [] u = Url2013Doy050 -> 20130219
    [] u = Url2013Doy200 -> 20130719
    [] u = Url1899Doy365 -> 18991231

YearNumber(u) == DayNumber(u) \div 10000

DoyNumber(u) ==
  CASE u = UrlJan01 -> 1
    [] u = UrlJun15 -> 166
    [] u = UrlDec31 -> 365
    [] u = Url2012Doy100 -> 100
    [] u = Url2013Doy050 -> 50
    [] u = Url2013Doy200 -> 200
    [] u = Url1899Doy365 -> 365

IsDate(b) == b[1] \in {D20130101, D20130615, D20131231}

\* C6: with bounds that are dates, date_range_filter returns the links,
\* in their order, whose day d has start <= d (when start is given) and
\* d <= end (when end is given); without bounds it returns the list as is.
C6_DateRangeSublist ==
  pc = "done" /\ (arg[2] = None \/ IsDate(arg[2])) /\ (arg[3] = None \/ IsDate(arg[3]))
    => /\ ret = Ok(SelectSeq(arg[1],
                   LAMBDA u : /\ (arg[2] = None \/ DigitsValue(arg[2][1]) <= DayNumber(u))
                              /\ (arg[3] = None \/ DayNumber(u) <= DigitsValue(arg[3][1]))))
       /\ (arg[2] = None /\ arg[3] = None => ret = Ok(arg[1]))

\* Links of 2013-01-01, 2013-06-15, 2013-12-31 with start=20130101 and
\* end=20130615: the first two are kept.
C6_Witness ==
  /\ pc = "done"
  /\ arg = <<<<UrlJan01, UrlJun15, UrlDec31>>, Some(D20130101), Some(D20130615)>>
  /\ ret = Ok(<<UrlJan01, UrlJun15>>)

\* the links are dated from 1900 on, the years strftime formats
FormattableDates(urls) == \A i \in 1..Len(urls) : YearNumber(urls[i]) >= 1900

\* C7: on links dated from 1900 on, doy_and_year_filter returns the links,
\* in their order, whose year is within min_y..max_y and whose day of year
\* is within min_d..max_d, both at once.
C7_DoyAndYearSublist ==
  pc = "done" /\ FormattableDates(arg[1])
    => ret = Ok(SelectSeq(arg[1],
                LAMBDA u : /\ arg[3][1] <= YearNumber(u) /\ YearNumber(u) <= arg[3][2]
                           /\ arg[2][1] <= DoyNumber(u) /\ DoyNumber(u) <= arg[2][2]))

\* Links of (2012,100), (2013,50), (2013,200) with years 2013-2013 and
\* days 50-150: only (2013,50) is kept.
C7_Witness ==
  /\ pc = "done"
  /\ arg = <<<<Url2012Doy100, Url2013Doy050, Url2013Doy200>>, <<50, 150>>, <<2013, 2013>>>>
  /\ ret = Ok(<<Url2013Doy050>>)

(***************************************************************************)
(* Properties of parse_hyphened_range and build_query_string, under        *)
(* SpecRange and SpecQuery.                                                *)
(***************************************************************************)
\* a token int() reads: digits, with or without a plus sign and whitespace
IntegerToken(t) ==
  LET body == LStrip(IF Strip(t) # <<>> /\ Head(Strip(t)) = "+"
                     THEN Tail(Strip(t)) ELSE Strip(t))
  IN  body # <<>> /\ AllDigits(body)

\* one or two integer tokens, separated by one hyphen
WellFormedRange(s) ==
  /\ Cardinality({i \in 1..Len(s) : s[i] = "-"}) <= 1
  /\ \A i \in 1..Len(Split(s, <<"-">>)) : IntegerToken(Split(s, <<"-">>)[i])

\* C9: parse_hyphened_range returns no range for a string that is not
\* one or two hyphen-separated integer tokens.
C9_MalformedRangeFails == pc = "done" /\ ~WellFormedRange(arg[1]) => ~IsOk(ret)

HasValue(pair, n) ==
  /\ Len(pair) > Len(ATT_VALUE_FMT)
  /\ SubSeq(pair, 1, Len(ATT_VALUE_FMT)) = ATT_VALUE_FMT
  /\ PyInt(SubSeq(pair, Len(ATT_VALUE_FMT) + 1, Len(pair))) = Ok(n)

TwoDigits(a, b) ==
  10 * ((CHOOSE n \in 0..9 : DigitChars[n + 1] = a))
     + (CHOOSE n \in 0..9 : DigitChars[n + 1] = b)

\* C10: for a tile hXXvYY the result is the base query, unchanged, then
\* the pairs name=HORIZONTALTILENUMBER, type=int, value=XX, then the pairs
\* name=VERTICALTILENUMBER, type=int, value=YY, joined by '&'.
C10_QueryClauses ==
  pc = "done" /\ ExactTile(arg[1])
    => /\ IsOk(ret)
       /\ LET q == arg[2]
              r == Val(ret)
              parts == Split(SubSeq(r, Len(q) + 1, Len(r)), <<"&">>)
          IN  /\ Len(r) > Len(q)
              /\ SubSeq(r, 1, Len(q)) = q
              /\ Len(parts) = 7
              /\ parts[1] = <<>>
              /\ parts[2] = ATT_NAME_HORIZONTAL
              /\ parts[3] = ATT_TYPE
              /\ HasValue(parts[4], TwoDigits(arg[1][2], arg[1][3]))
              /\ parts[5] = ATT_NAME_VERTICAL
              /\ parts[6] = ATT_TYPE
              /\ HasValue(parts[7], TwoDigits(arg[1][5], arg[1][6]))

\* The tile of the usage example on the program's own query.
C10_Witness ==
  /\ pc = "done"
  /\ arg = <<TileH11V03, QUERY_STRING>>
  /\ IsOk(ret)
  /\ Len(Val(ret)) > Len(QUERY_STRING)

====
